---- MODULE Spec2Model ----
(***************************************************************************)
(* Model of @neoma/config: ConfigService (the Proxy get/has traps, the     *)
(* property-name to environment-key transformation, strict mode and type   *)
(* coercion) and ConfigModule.forRoot (the .env file loading).             *)
(*                                                                         *)
(* Strings are sequences of one-character strings, so that the regular     *)
(* expressions, trim() and Number() of the source can be computed          *)
(* character by character.                                                 *)
(***************************************************************************)
EXTENDS Integers, Sequences, FiniteSets, TLC

VARIABLES
  env,      \* process.env: a function from the defined keys to their values
  files,    \* the file system: a function from the existing paths to entries
  options,  \* the Partial<ConfigOptions> injected into the ConfigService
  phase,    \* "boot" (no module yet), "module" (module imported), "ready"
  last      \* the last call made and its outcome, forgotten when env is changed

vars == <<env, files, options, phase, last>>

----------------------------------------------------------------------------
(* Characters *)

LowerSeq == <<"a","b","c","d","e","f","g","h","i","j","k","l","m",
              "n","o","p","q","r","s","t","u","v","w","x","y","z">>
UpperSeq == <<"A","B","C","D","E","F","G","H","I","J","K","L","M",
              "N","O","P","Q","R","S","T","U","V","W","X","Y","Z">>
DigitSeq == <<"0","1","2","3","4","5","6","7","8","9">>

Range(f) == {f[i] : i \in DOMAIN f}

\* [a-z]
IsLower(c) == c \in Range(LowerSeq)
\* [A-Z]
IsUpper(c) == c \in Range(UpperSeq)
\* [0-9]
IsDigit(c) == c \in Range(DigitSeq)
\* [a-z0-9]
IsLowerOrDigit(c) == IsLower(c) \/ IsDigit(c)

IndexOf(seq, c) == CHOOSE i \in DOMAIN seq : seq[i] = c

\* one character of String.prototype.toUpperCase
UpperChar(c) == IF IsLower(c) THEN UpperSeq[IndexOf(LowerSeq, c)] ELSE c

\* String.prototype.toUpperCase
ToUpperCase(s) == [i \in 1..Len(s) |-> UpperChar(s[i])]

\* the characters of s from position i to its end
From(s, i) == SubSeq(s, i, Len(s))

----------------------------------------------------------------------------
(* The name transformation of the get and has traps *)

\* ReplaceLowerUpper with the class [a-z] in place of [a-z0-9]
RECURSIVE ReplaceLowerUpperLettersOnly(_)
ReplaceLowerUpperLettersOnly(s) ==
  IF s = <<>> THEN <<>>
  ELSE IF Len(s) >= 2 /\ IsLower(s[1]) /\ IsUpper(s[2])
       THEN <<s[1], "_", s[2]>> \o ReplaceLowerUpperLettersOnly(From(s, 3))
       ELSE <<s[1]>> \o ReplaceLowerUpperLettersOnly(From(s, 2))

\* the first replace with "$1_" for its replacement: the uppercase letter goes
RECURSIVE ReplaceLowerUpperDropsUpper(_)
ReplaceLowerUpperDropsUpper(s) ==
  IF s = <<>> THEN <<>>
  ELSE IF Len(s) >= 2 /\ IsLowerOrDigit(s[1]) /\ IsUpper(s[2])
       THEN <<s[1], "_">> \o ReplaceLowerUpperDropsUpper(From(s, 3))
       ELSE <<s[1]>> \o ReplaceLowerUpperDropsUpper(From(s, 2))

\* the first replace without its g flag: the first match only
RECURSIVE ReplaceLowerUpperFirstOnly(_)
ReplaceLowerUpperFirstOnly(s) ==
  IF s = <<>> THEN <<>>
  ELSE IF Len(s) >= 2 /\ IsLowerOrDigit(s[1]) /\ IsUpper(s[2])
       THEN <<s[1], "_">> \o From(s, 2)
       ELSE <<s[1]>> \o ReplaceLowerUpperFirstOnly(From(s, 2))

\* prop.replace(/([a-z0-9])([A-Z])/g, "$1_$2"): scanning from the left, every
\* match is two characters and the search resumes after the match.
RECURSIVE ReplaceLowerUpper(_)
ReplaceLowerUpper(s) ==
  IF s = <<>> THEN <<>>
  ELSE IF Len(s) >= 2 /\ IsLowerOrDigit(s[1]) /\ IsUpper(s[2])
       THEN <<s[1], "_", s[2]>> \o ReplaceLowerUpper(From(s, 3))
       ELSE <<s[1]>> \o ReplaceLowerUpper(From(s, 2))

\* the length of the longest prefix of s whose characters all satisfy the class
RECURSIVE UpperRun(_)
UpperRun(s) == IF s # <<>> /\ IsUpper(s[1]) THEN 1 + UpperRun(Tail(s)) ELSE 0

RECURSIVE LowerDigitRun(_)
LowerDigitRun(s) ==
  IF s # <<>> /\ IsLowerOrDigit(s[1]) THEN 1 + LowerDigitRun(Tail(s)) ELSE 0

\* /([A-Z]+)([A-Z][a-z0-9]+)/ anchored at the start of s: the lengths g of
\* group 1 for which the rest of the pattern matches. [A-Z]+ is greedy and
\* backtracks, so the engine takes the largest one.
AcronymGroups(s) ==
  {g \in 1..UpperRun(s) :
     /\ g + 2 <= Len(s)
     /\ IsUpper(s[g + 1])
     /\ IsLowerOrDigit(s[g + 2])}

Max(S) == CHOOSE x \in S : \A y \in S : y <= x

\* the second replace left out
ReplaceAcronymNone(s) == s

\* .replace(/([A-Z]+)([A-Z][a-z0-9]+)/g, "$1_$2")
RECURSIVE ReplaceAcronym(_)
ReplaceAcronym(s) ==
  IF s = <<>> THEN <<>>
  ELSE IF AcronymGroups(s) # {}
       THEN LET g == Max(AcronymGroups(s))
                n == 1 + LowerDigitRun(From(s, g + 2))
            IN  SubSeq(s, 1, g) \o <<"_">> \o SubSeq(s, g + 1, g + n)
                  \o ReplaceAcronym(From(s, g + n + 1))
       ELSE <<s[1]>> \o ReplaceAcronym(From(s, 2))

\* the name transformation without its final toUpperCase()
NameMapperNoUpperCase(prop) == ReplaceAcronym(ReplaceLowerUpper(prop))

\* envKey = prop.replace(...).replace(...).toUpperCase()
NameMapper(prop) == ToUpperCase(ReplaceAcronym(ReplaceLowerUpper(prop)))

----------------------------------------------------------------------------
(* JavaScript values *)

Undefined == [t |-> "undefined"]
Null      == [t |-> "null"]
Bool(b)   == [t |-> "boolean", v |-> b]
Str(s)    == [t |-> "string", v |-> s]
\* a finite number (-1)^neg * mant * 10^exp, kept in a normal form
Finite(neg, mant, exp) ==
  [t |-> "number", cls |-> "finite", neg |-> neg, mant |-> mant, exp |-> exp]
Infinite(neg) == [t |-> "number", cls |-> "infinity", neg |-> neg]
NaN == [t |-> "number", cls |-> "nan"]

\* typeof x === "string", typeof x === "number"
IsString(x) == x.t = "string"
IsNumber(x) == x.t = "number"

\* the global isNaN applied to a number
isNaN(x) == x.t = "number" /\ x.cls = "nan"

----------------------------------------------------------------------------
(* String.prototype.trim and Number(string) *)

\* WhiteSpace and LineTerminator characters
WhiteSpace == {" ", "\t", "\n"}

RECURSIVE TrimStart(_)
TrimStart(s) ==
  IF s # <<>> /\ s[1] \in WhiteSpace THEN TrimStart(Tail(s)) ELSE s

RECURSIVE TrimEnd(_)
TrimEnd(s) ==
  IF s # <<>> /\ s[Len(s)] \in WhiteSpace
  THEN TrimEnd(SubSeq(s, 1, Len(s) - 1)) ELSE s

\* String.prototype.trim
Trim(s) == TrimEnd(TrimStart(s))

HexLetters == <<"a","b","c","d","e","f">>

\* the value of one digit in the given base, -1 when it is no digit of it
DigitValue(c, base) ==
  LET v == IF IsDigit(c) THEN IndexOf(DigitSeq, c) - 1
           ELSE IF c \in Range(HexLetters) THEN 9 + IndexOf(HexLetters, c)
           ELSE IF c \in {UpperChar(h) : h \in Range(HexLetters)}
                THEN 9 + IndexOf(ToUpperCase(HexLetters), c)
           ELSE -1
  IN  IF v < base THEN v ELSE -1

\* s is a non-empty run of digits of the base
IsDigits(s, base) ==
  s # <<>> /\ \A i \in 1..Len(s) : DigitValue(s[i], base) >= 0

\* the mathematical value of a run of digits
RECURSIVE DigitsValue(_, _)
DigitsValue(s, base) ==
  IF s = <<>> THEN 0
  ELSE DigitsValue(SubSeq(s, 1, Len(s) - 1), base) * base
         + DigitValue(s[Len(s)], base)

RECURSIVE NumDigits(_)
NumDigits(m) == IF m < 10 THEN 1 ELSE 1 + NumDigits(m \div 10)

RECURSIVE Pow10(_)
Pow10(n) == IF n = 0 THEN 1 ELSE 10 * Pow10(n - 1)

\* the largest exponent of a double, the first digits of the smallest value
\* that rounds to Infinity (1.79769313...e308), and the exponent below which
\* every value rounds to zero (the least double is 4.94e-324)
MaxExponent10 == 308
OverflowLead == 179769313
MinExponent10 == -324

\* the Number value of the mathematical value (-1)^neg * mant * 10^exp, for a
\* mantissa of at most nine digits: too large gives Infinity, too small gives
\* zero, and otherwise the value itself with the mantissa's trailing zeros
\* moved into the exponent (the binary rounding of the mantissa is left out)
RECURSIVE RoundMV(_, _, _)
RoundMV(neg, mant, exp) ==
  IF mant = 0 THEN Finite(neg, 0, 0)
  ELSE IF mant % 10 = 0 THEN RoundMV(neg, mant \div 10, exp + 1)
  ELSE LET order == NumDigits(mant) + exp - 1
       IN  IF \/ order > MaxExponent10
              \/ /\ order = MaxExponent10
                 /\ mant * Pow10(9 - NumDigits(mant)) > OverflowLead
           THEN Infinite(neg)
           ELSE IF order < MinExponent10 THEN Finite(neg, 0, 0)
           ELSE Finite(neg, mant, exp)

\* the positions of the characters of s that belong to cs
Positions(s, cs) == {i \in 1..Len(s) : s[i] \in cs}

Min(S) == CHOOSE x \in S : \A y \in S : x <= y

InfinityLiteral == <<"I","n","f","i","n","i","t","y">>

\* SignedInteger of an exponent part: the value, or "none" when malformed
SignedInteger(s) ==
  LET signed == s # <<>> /\ s[1] \in {"+", "-"}
      digits == IF signed THEN Tail(s) ELSE s
  IN  IF ~IsDigits(digits, 10) THEN [ok |-> FALSE, v |-> 0]
      ELSE [ok |-> TRUE,
            v  |-> IF signed /\ s[1] = "-" THEN 0 - DigitsValue(digits, 10)
                   ELSE DigitsValue(digits, 10)]

\* StrUnsignedDecimalLiteral: Infinity, or digits with an optional fraction
\* and an optional exponent part
UnsignedDecimal(neg, s) ==
  IF s = InfinityLiteral THEN Infinite(neg)
  ELSE
    LET es    == Positions(s, {"e", "E"})
        epos  == IF es = {} THEN Len(s) + 1 ELSE Min(es)
        mstr  == SubSeq(s, 1, epos - 1)
        expo  == IF es = {} THEN [ok |-> TRUE, v |-> 0]
                 ELSE SignedInteger(From(s, epos + 1))
        ds    == Positions(mstr, {"."})
        dpos  == IF ds = {} THEN Len(mstr) + 1 ELSE Min(ds)
        ipart == SubSeq(mstr, 1, dpos - 1)
        fpart == From(mstr, dpos + 1)
        wellFormed ==
          /\ expo.ok
          /\ ipart = <<>> \/ IsDigits(ipart, 10)
          /\ fpart = <<>> \/ IsDigits(fpart, 10)
          /\ ipart # <<>> \/ fpart # <<>>
    IN  IF wellFormed
        THEN RoundMV(neg, DigitsValue(ipart \o fpart, 10), expo.v - Len(fpart))
        ELSE NaN

\* NonDecimalIntegerLiteral: 0x, 0o or 0b (either case) and digits of the base
RadixOf(s) ==
  IF Len(s) >= 2 /\ s[1] = "0"
  THEN IF s[2] \in {"x", "X"} THEN 16
       ELSE IF s[2] \in {"o", "O"} THEN 8
       ELSE IF s[2] \in {"b", "B"} THEN 2
       ELSE 10
  ELSE 10

\* StringToNumber: Number(s) for a string s
StringToNumber(s) ==
  LET t == Trim(s)
  IN  IF t = <<>> THEN Finite(FALSE, 0, 0)
      ELSE IF RadixOf(t) # 10
           THEN IF IsDigits(From(t, 3), RadixOf(t))
                THEN RoundMV(FALSE, DigitsValue(From(t, 3), RadixOf(t)), 0)
                ELSE NaN
      ELSE IF t[1] \in {"+", "-"} THEN UnsignedDecimal(t[1] = "-", Tail(t))
      ELSE UnsignedDecimal(FALSE, t)

\* Number(value) for a string or undefined
Number(x) == IF IsString(x) THEN StringToNumber(x.v) ELSE NaN

----------------------------------------------------------------------------
(* isCleanNumber *)

\* /^0[0-9]/.test(s)
LeadingZeroDigit(s) == Len(s) >= 2 /\ s[1] = "0" /\ IsDigit(s[2])

\* !str for a string or undefined
IsFalsy(x) == x = Undefined \/ (IsString(x) /\ x.v = <<>>)

\* isCleanNumber blocking every leading zero: /^0/
isCleanNumberAnyLeadingZero(str) ==
  IF IsFalsy(str) THEN FALSE
  ELSE IF Trim(str.v) # <<>> /\ Trim(str.v)[1] = "0" THEN FALSE
  ELSE ~isNaN(Number(str))

\* isCleanNumber testing the leading zero without trim()
isCleanNumberNoTrim(str) ==
  IF IsFalsy(str) THEN FALSE
  ELSE IF LeadingZeroDigit(str.v) THEN FALSE
  ELSE ~isNaN(Number(str))

\* isCleanNumber without the "must be parseable" test
isCleanNumberNoParseCheck(str) ==
  IF IsFalsy(str) THEN FALSE
  ELSE IF LeadingZeroDigit(Trim(str.v)) THEN FALSE
  ELSE TRUE

isCleanNumber(str) ==
  IF IsFalsy(str) THEN FALSE
  ELSE IF LeadingZeroDigit(Trim(str.v)) THEN FALSE
  ELSE ~isNaN(Number(str))

----------------------------------------------------------------------------
(* ConfigOptions and the proxy traps *)

OptionNames == {"loadEnv", "strict", "coerce"}

\* Partial<ConfigOptions>: any of the three flags may be missing
PartialOptions == UNION {[S -> BOOLEAN] : S \in SUBSET OptionNames}

\* the truthiness of options.<name>: a missing flag reads undefined
Flag(opts, name) == name \in DOMAIN opts /\ opts[name]

\* a property key: a string, or a symbol (whose description plays no part)
StringProp(name) == [type |-> "string", name |-> name]
SymbolProp(name) == [type |-> "symbol", name |-> name]

Then   == <<"t","h","e","n">>
ToJSON == <<"t","o","J","S","O","N">>

\* the test for special properties with the two names left out
IsSpecialSymbolsOnly(prop) == prop.type = "symbol"

\* typeof prop === "symbol" || prop === "then" || prop === "toJSON"
IsSpecial(prop) ==
  prop.type = "symbol" \/ prop.name = Then \/ prop.name = ToJSON

\* a lookup answered from the empty environment the process started with
LookupAtStart(e, key) == Undefined

\* process.env[envKey]
Lookup(e, envKey) == IF envKey \in DOMAIN e THEN Str(e[envKey]) ELSE Undefined

Return(x) == [kind |-> "return", value |-> x]
Throw(msg) == [kind |-> "throw", message |-> msg]

NullLiteral      == <<"n","u","l","l">>
UndefinedLiteral == <<"u","n","d","e","f","i","n","e","d">>
TrueLiteral      == <<"t","r","u","e">>
FalseLiteral     == <<"f","a","l","s","e">>

\* StrictMessage with the environment key written in both places
StrictMessageKeyOnly(name, envKey) ==
  <<"Strict mode error when accessing configuration property '">>
    \o envKey \o <<"'. ">> \o envKey \o <<" is not defined on process.env">>

\* the template literal of the strict mode error: its fixed parts are kept as
\* whole pieces around the characters of prop and of envKey
StrictMessage(name, envKey) ==
  <<"Strict mode error when accessing configuration property '">>
    \o name \o <<"'. ">> \o envKey \o <<" is not defined on process.env">>

\* Coerce turning "true" and "false" into Boolean(value), the truthiness of
\* a non-empty string
CoerceBooleanOfString(value) ==
  IF value = Str(NullLiteral) THEN Null
  ELSE IF value = Str(UndefinedLiteral) THEN Undefined
  ELSE IF value = Str(TrueLiteral) THEN Bool(~IsFalsy(value))
  ELSE IF value = Str(FalseLiteral) THEN Bool(~IsFalsy(value))
  ELSE IF isCleanNumber(value) THEN Number(value)
  ELSE value

\* the body of "if (options.coerce) { ... }" followed by "return value"
Coerce(value) ==
  IF value = Str(NullLiteral) THEN Null
  ELSE IF value = Str(UndefinedLiteral) THEN Undefined
  ELSE IF value = Str(TrueLiteral) THEN Bool(TRUE)
  ELSE IF value = Str(FalseLiteral) THEN Bool(FALSE)
  ELSE IF isCleanNumber(value) THEN Number(value)
  ELSE value

\* GetTrap throwing on every undefined value, whatever options.strict
GetTrapAlwaysStrict(e, opts, prop) ==
  IF IsSpecial(prop) THEN Return(Undefined)
  ELSE LET envKey == NameMapper(prop.name)
           value  == Lookup(e, envKey)
       IN  IF value = Undefined
           THEN Throw(StrictMessage(prop.name, envKey))
           ELSE IF Flag(opts, "coerce") THEN Return(Coerce(value))
           ELSE Return(value)

\* GetTrap coercing whatever options.coerce
GetTrapAlwaysCoerce(e, opts, prop) ==
  IF IsSpecial(prop) THEN Return(Undefined)
  ELSE LET envKey == NameMapper(prop.name)
           value  == Lookup(e, envKey)
       IN  IF value = Undefined /\ Flag(opts, "strict")
           THEN Throw(StrictMessage(prop.name, envKey))
           ELSE Return(Coerce(value))

\* GetTrap testing strictness on the coerced value instead of the raw one
GetTrapStrictAfterCoerce(e, opts, prop) ==
  IF IsSpecial(prop) THEN Return(Undefined)
  ELSE LET envKey  == NameMapper(prop.name)
           value   == Lookup(e, envKey)
           coerced == IF Flag(opts, "coerce") THEN Coerce(value) ELSE value
       IN  IF coerced = Undefined /\ Flag(opts, "strict")
           THEN Throw(StrictMessage(prop.name, envKey))
           ELSE Return(coerced)

\* GetTrap with "if (!value && options.strict)" for its strict test
GetTrapStrictOnFalsy(e, opts, prop) ==
  IF IsSpecial(prop) THEN Return(Undefined)
  ELSE LET envKey == NameMapper(prop.name)
           value  == Lookup(e, envKey)
       IN  IF (value = Undefined \/ value = Str(<<>>)) /\ Flag(opts, "strict")
           THEN Throw(StrictMessage(prop.name, envKey))
           ELSE IF Flag(opts, "coerce") THEN Return(Coerce(value))
           ELSE Return(value)

\* GetTrap with prop.toUpperCase() for its environment key
GetTrapUpperCaseOnly(e, opts, prop) ==
  IF IsSpecial(prop) THEN Return(Undefined)
  ELSE LET envKey == ToUpperCase(prop.name)
           value  == Lookup(e, envKey)
       IN  IF value = Undefined /\ Flag(opts, "strict")
           THEN Throw(StrictMessage(prop.name, envKey))
           ELSE IF Flag(opts, "coerce") THEN Return(Coerce(value))
           ELSE Return(value)

\* the get trap
GetTrap(e, opts, prop) ==
  IF IsSpecial(prop) THEN Return(Undefined)
  ELSE LET envKey == NameMapper(prop.name)
           value  == Lookup(e, envKey)
       IN  IF value = Undefined /\ Flag(opts, "strict")
           THEN Throw(StrictMessage(prop.name, envKey))
           ELSE IF Flag(opts, "coerce") THEN Return(Coerce(value))
           ELSE Return(value)

\* HasTrap testing the value's truthiness instead of comparing with undefined
HasTrapTruthy(e, opts, prop) ==
  IF IsSpecial(prop) THEN Return(Bool(FALSE))
  ELSE Return(Bool(~IsFalsy(Lookup(e, NameMapper(prop.name)))))

\* HasTrap gated by strict mode as the get trap is
HasTrapStrict(e, opts, prop) ==
  IF IsSpecial(prop) THEN Return(Bool(FALSE))
  ELSE LET envKey == NameMapper(prop.name)
       IN  IF Lookup(e, envKey) = Undefined /\ Flag(opts, "strict")
           THEN Throw(StrictMessage(prop.name, envKey))
           ELSE Return(Bool(Lookup(e, envKey) # Undefined))

\* the has trap without its test for special properties
HasTrapNoSpecial(e, opts, prop) ==
  Return(Bool(Lookup(e, NameMapper(prop.name)) # Undefined))

\* the has trap
HasTrap(e, opts, prop) ==
  IF IsSpecial(prop) THEN Return(Bool(FALSE))
  ELSE Return(Bool(Lookup(e, NameMapper(prop.name)) # Undefined))

----------------------------------------------------------------------------
(* dotenv.config({ path: [...], quiet: true }) as ConfigModule.forRoot calls it *)

DotEnv   == <<".","e","n","v">>
DotLocal == <<".","l","o","c","a","l">>
NodeEnv  == <<"N","O","D","E","_","E","N","V">>

\* `${process.env.NODE_ENV}`: an undefined value is written "undefined"
TemplateString(x) == IF x = Undefined THEN UndefinedLiteral ELSE x.v

\* the path option with its array in the opposite order
EnvPathsReversed(e) ==
  LET nodeEnv == TemplateString(Lookup(e, NodeEnv))
  IN  << DotEnv,
         DotEnv \o <<".">> \o nodeEnv,
         DotEnv \o DotLocal,
         DotEnv \o <<".">> \o nodeEnv \o DotLocal >>

\* the path option, in the order of the array
EnvPaths(e) ==
  LET nodeEnv == TemplateString(Lookup(e, NodeEnv))
  IN  << DotEnv \o <<".">> \o nodeEnv \o DotLocal,
         DotEnv \o DotLocal,
         DotEnv \o <<".">> \o nodeEnv,
         DotEnv >>

\* dotenv.parse of a file given as its KEY=VALUE lines in order: a key set
\* twice keeps its last value
RECURSIVE Parse(_)
Parse(lines) ==
  IF lines = <<>> THEN <<>>
  ELSE LET rest == Parse(SubSeq(lines, 1, Len(lines) - 1))
           line == lines[Len(lines)]
       IN  [k \in DOMAIN rest \cup {line[1]} |->
              IF k = line[1] THEN line[2] ELSE rest[k]]

\* dotenv.populate(target, parsed) with override: the parsed value wins
PopulateOverride(target, parsed) ==
  [k \in DOMAIN target \cup DOMAIN parsed |->
     IF k \in DOMAIN parsed THEN parsed[k] ELSE target[k]]

\* dotenv.populate(target, parsed) without override: a key of the target is kept
Populate(target, parsed) ==
  [k \in DOMAIN target \cup DOMAIN parsed |->
     IF k \in DOMAIN target THEN target[k] ELSE parsed[k]]

\* the loop over the paths giving up at the first file that cannot be read
RECURSIVE ParseAllStopAtMissing(_, _)
ParseAllStopAtMissing(fs, paths) ==
  IF paths = <<>> THEN <<>>
  ELSE IF paths[1] \notin DOMAIN fs THEN <<>>
  ELSE Populate(Parse(fs[paths[1]]),
                ParseAllStopAtMissing(fs, SubSeq(paths, 2, Len(paths))))

\* the loop over the paths: a file that cannot be read is skipped
RECURSIVE ParseAll(_, _)
ParseAll(fs, paths) ==
  IF paths = <<>> THEN <<>>
  ELSE LET first == ParseAll(fs, SubSeq(paths, 1, Len(paths) - 1))
           path  == paths[Len(paths)]
       IN  IF path \in DOMAIN fs THEN Populate(first, Parse(fs[path]))
           ELSE first

\* process.env after dotenv.config called with override: true
DotenvConfigOverride(e, fs) == Populate(ParseAll(fs, EnvPaths(e)), e)

\* process.env after dotenv.config
DotenvConfig(e, fs) == Populate(e, ParseAll(fs, EnvPaths(e)))

\* the destructuring defaults with strict = true
ForRootOptionsStrictByDefault(arg) ==
  [n \in OptionNames |-> IF n \in DOMAIN arg THEN arg[n] ELSE n = "strict"]

\* the destructuring defaults of forRoot's parameter
ForRootOptions(arg) == [n \in OptionNames |-> Flag(arg, n)]

\* process.env after ConfigModule.forRoot(arg)
ForRootEnv(e, fs, arg) ==
  IF Flag(arg, "loadEnv") THEN DotenvConfig(e, fs) ELSE e

\* the DynamicModule forRoot returns: its CONFIG_OPTIONS provider's value
DynamicModule(arg) ==
  [t |-> "object", module |-> "ConfigModule", useValue |-> ForRootOptions(arg)]

\* the Proxy the constructor returns
Proxy == [t |-> "object", module |-> "ConfigService"]

----------------------------------------------------------------------------
(* The universe the model checker draws from *)

ApiUrlKey == <<"A","P","I","_","U","R","L">>
PortKey   == <<"P","O","R","T">>
ThenKey   == <<"T","H","E","N">>

\* the keys the test environment sets or deletes in process.env
EnvKeys == {ApiUrlKey, ThenKey, NodeEnv}

Dev == <<"d","e","v">>

\* the values it gives them
EnvValues(k) ==
  IF k = NodeEnv THEN {Dev}
  ELSE IF k = ApiUrlKey THEN {<<>>, <<"3","0","0","0">>}
  ELSE {<<"3","0","0","0">>}

\* the property names read through the proxy
Props ==
  { StringProp(<<"a","p","i","U","r","l">>),
    StringProp(<<"a","p","i","U","R","L">>),
    StringProp(<<"p","o","r","t">>),
    StringProp(<<"a","p","p","N","a","m","e">>),
    StringProp(Then),
    StringProp(ToJSON),
    SymbolProp(<<"i","t","e","r","a","t","o","r">>) }

\* the .env files of the working directory: none, or the four of the fixture
\* (with NODE_ENV=dev), whose keys overlap so that the precedence shows
FixtureFiles ==
  (DotEnv \o <<".">> \o Dev \o DotLocal) :>
      << <<ApiUrlKey, <<"d","e","v","-","l","o","c","a","l">>>> >>
  @@ (DotEnv \o DotLocal) :>
      << <<ApiUrlKey, <<"l","o","c","a","l">>>>, <<PortKey, <<"8","0","8","0">>>> >>
  @@ (DotEnv \o <<".">> \o Dev) :>
      << <<PortKey, <<"9","0","9","0">>>> >>
  @@ DotEnv :>
      << <<<<"A","P","P","_","N","A","M","E">>, <<"c","o","n","f","i","g","-","e","n","v">>>>,
         <<PortKey, <<"8","0">>>> >>

FileSystems == {<<>>, FixtureFiles}

----------------------------------------------------------------------------
(* The state machine *)

NoAccess == [op |-> "none"]

Init ==
  /\ env = <<>>
  /\ files \in FileSystems
  /\ options = <<>>
  /\ phase = "boot"
  /\ last = NoAccess

\* the test, or the process's owner, sets process.env[k] = v
SetEnv(k, v) ==
  /\ env' = [x \in DOMAIN env \cup {k} |-> IF x = k THEN v ELSE env[x]]
  /\ env' # env
  /\ last' = NoAccess
  /\ UNCHANGED <<files, options, phase>>

\* delete process.env[k]
DeleteEnv(k) ==
  /\ k \in DOMAIN env
  /\ env' = [x \in DOMAIN env \ {k} |-> env[x]]
  /\ last' = NoAccess
  /\ UNCHANGED <<files, options, phase>>

\* imports: [ConfigModule]: no CONFIG_OPTIONS provider, so the constructor's
\* default parameter, the empty object, is what the traps close over
ImportModule ==
  /\ phase = "boot"
  /\ options' = <<>>
  /\ phase' = "module"
  /\ UNCHANGED <<env, files, last>>

\* imports: [ConfigModule.forRoot(arg)]
ForRoot(arg) ==
  /\ phase = "boot"
  /\ env' = ForRootEnv(env, files, arg)
  /\ options' = DynamicModule(arg).useValue
  /\ phase' = "module"
  /\ last' = [op |-> "forRoot", outcome |-> Return(DynamicModule(arg))]
  /\ UNCHANGED files

\* new ConfigService(options) that loads the files again when loadEnv is set
ConstructReloading ==
  /\ phase = "module"
  /\ phase' = "ready"
  /\ last' = [op |-> "construct", outcome |-> Return(Proxy)]
  /\ env' = ForRootEnv(env, files, options)
  /\ UNCHANGED <<files, options>>

\* new ConfigService(options): returns the Proxy
Construct ==
  /\ phase = "module"
  /\ phase' = "ready"
  /\ last' = [op |-> "construct", outcome |-> Return(Proxy)]
  /\ UNCHANGED <<env, files, options>>

\* config[prop] that removes the entry it reads
GetConsuming(prop) ==
  /\ phase = "ready"
  /\ last' = [op |-> "get", prop |-> prop, outcome |-> GetTrap(env, options, prop)]
  /\ env' = [x \in DOMAIN env \ {NameMapper(prop.name)} |-> env[x]]
  /\ UNCHANGED <<files, options, phase>>

\* config[prop]
Get(prop) ==
  /\ phase = "ready"
  /\ last' = [op |-> "get", prop |-> prop, outcome |-> GetTrap(env, options, prop)]
  /\ UNCHANGED <<env, files, options, phase>>

\* prop in config
Has(prop) ==
  /\ phase = "ready"
  /\ last' = [op |-> "has", prop |-> prop, outcome |-> HasTrap(env, options, prop)]
  /\ UNCHANGED <<env, files, options, phase>>

Next ==
  \/ \E k \in EnvKeys : \E v \in EnvValues(k) : SetEnv(k, v)
  \/ \E k \in EnvKeys : DeleteEnv(k)
  \/ ImportModule
  \/ \E arg \in PartialOptions : ForRoot(arg)
  \/ Construct
  \/ \E prop \in Props : Get(prop)
  \/ \E prop \in Props : Has(prop)

Spec == Init /\ [][Next]_vars

----------------------------------------------------------------------------
(* Coercion as a function of the raw value: the resolver is ready, one      *)
(* variable holds a raw value drawn from the bounded strings below, and the *)
(* proxy is read.                                                           *)

\* the longest raw value made of RawChars
MaxRawLen == 3

RawChars == {"0", "1", " ", ".", "x", "e", "-"}

\* the values of the coercion tests, and near misses of the literals
RawSamples ==
  { NullLiteral, UndefinedLiteral, TrueLiteral, FalseLiteral,
    <<"N","a","N">>, InfinityLiteral,
    <<"0","0","7">>, <<"0","1","2","3">>, <<" ","0","0","7"," ">>, <<" ","1","2","3"," ">>,
    <<"0","x","1","F">>, <<"0","o","1","7">>, <<"0","b","1","0","1">>, <<"0",".","1","2","3">>,
    <<"1",".","5","e","+","2","1">>, <<"1","e","9","9","9">>, <<"-","0","0","7">>,
    <<"T","R","U","E">>, <<" ","t","r","u","e">>, <<"N","u","l","l">>, <<"h","e","l","l","o">> }

RawStrings ==
  RawSamples \cup UNION {[1..n -> RawChars] : n \in 0..MaxRawLen}

EnvRawKey == <<"E","N","V","_","R","A","W">>
EnvRaw == StringProp(<<"e","n","v","R","a","w">>)

InitCoerce ==
  /\ \E raw \in RawStrings : env = (EnvRawKey :> raw)
  /\ files = <<>>
  /\ \E strict, coerce \in BOOLEAN :
       options = ForRootOptions([strict |-> strict, coerce |-> coerce])
  /\ phase = "ready"
  /\ last = NoAccess

NextCoerce ==
  \/ Get(EnvRaw)
  \/ Has(EnvRaw)

SpecCoerce == InitCoerce /\ [][NextCoerce]_vars

----------------------------------------------------------------------------
(* The name transformation as a function of the property name: the resolver *)
(* is ready and the proxy is read under names drawn from the bounded        *)
(* identifiers below, against an empty environment and against one that     *)
(* holds a different value under each of the expected keys.                 *)

\* the longest identifier made of NameChars
MaxNameLen == 3

\* a lowercase letter, an uppercase letter, a digit and the underscore
NameChars == {"a", "B", "1", "_"}

\* the names of the tests and of the documentation
NameSamples ==
  { <<"d","a","t","a","b","a","s","e","U","r","l">>,
    <<"d","a","t","a","b","a","s","e","U","R","L">>,
    <<"d","a","t","a","b","a","s","e","_","u","r","l">>,
    <<"a","p","i","U","r","l">>, <<"a","p","i","U","R","L">>,
    <<"a","p","i","_","u","r","l">>, <<"A","P","I","U","r","l">>,
    <<"s","c","r","e","a","m","i","n","g","S","n","a","k","e","C","a","s","e">>,
    <<"a","w","s","S","3","B","u","c","k","e","t">>,
    <<"a","w","s","S","3","B","u","c","k","e","t","N","a","m","e">>,
    <<"a","p","i","K","e","y">>,
    <<"A","W","S","B","u","c","k","e","t">> }

\* names with several word boundaries, and environment keys used as names
BoundarySamples ==
  { <<"a","B","c","D">>, <<"A","B","u","c","k","e","t">>,
    <<"H","T","T","P","2">>, <<"O","A","U","T","H","2">>,
    <<"O","A","U","T","H","2","_","C","L","I","E","N","T">> }

Identifiers ==
  NameSamples \cup BoundarySamples
    \cup UNION {[1..n -> NameChars] : n \in 0..MaxNameLen}

DatabaseUrlKey   == <<"D","A","T","A","B","A","S","E","_","U","R","L">>
ScreamingKey     == <<"S","C","R","E","A","M","I","N","G","_","S","N","A","K","E","_","C","A","S","E">>
AwsS3BucketKey   == <<"A","W","S","_","S","3","_","B","U","C","K","E","T">>
AwsS3BucketNmKey == <<"A","W","S","_","S","3","_","B","U","C","K","E","T","_","N","A","M","E">>
ApiKeyKey        == <<"A","P","I","_","K","E","Y">>
AwsBucketKey     == <<"A","W","S","_","B","U","C","K","E","T">>

\* a different one-character value under each key
NamedEnv ==
  DatabaseUrlKey :> <<"d">> @@ ApiUrlKey :> <<"u">> @@ ScreamingKey :> <<"s">>
    @@ AwsS3BucketKey :> <<"b">> @@ AwsS3BucketNmKey :> <<"n">>
    @@ ApiKeyKey :> <<"k">> @@ AwsBucketKey :> <<"w">>

InitMapper ==
  /\ env \in {<<>>, NamedEnv}
  /\ files = <<>>
  /\ \E strict \in BOOLEAN : options = ForRootOptions([strict |-> strict])
  /\ phase = "ready"
  /\ last = NoAccess

\* the property keys read and the ones tested with in
GetProps == {StringProp(name) : name \in Identifiers}
HasProps == {StringProp(name) : name \in NameSamples}

NextMapper ==
  \/ \E prop \in GetProps : Get(prop)
  \/ \E prop \in HasProps : Has(prop)

SpecMapper == InitMapper /\ [][NextMapper]_vars

----------------------------------------------------------------------------
(* File loading: the process starts with some of NODE_ENV, API_URL and PORT *)
(* set and with any of the four fixture files readable; the module is made  *)
(* with forRoot, the service is constructed and the proxy is read.          *)

AppNameKey == <<"A","P","P","_","N","A","M","E">>

\* a value no file holds, for a key set before loading
Preset == <<"X">>

\* process.env when the process starts
StartEnvs ==
  { [k \in S |-> IF k = NodeEnv THEN Dev
                 ELSE IF k = PortKey THEN <<"3","0","0","0">> ELSE Preset] :
      S \in SUBSET {NodeEnv, ApiUrlKey, PortKey} }

\* every subset of the four files can be read; the others cannot
FileSubsets ==
  { [p \in S |-> FixtureFiles[p]] : S \in SUBSET DOMAIN FixtureFiles }

\* the arguments forRoot is called with
LoadArgs ==
  { <<>>, [loadEnv |-> TRUE], [loadEnv |-> FALSE],
    [loadEnv |-> TRUE, strict |-> TRUE] }

LoadProps ==
  { StringProp(<<"a","p","i","U","r","l">>),
    StringProp(<<"p","o","r","t">>),
    StringProp(<<"a","p","p","N","a","m","e">>) }

InitLoad ==
  /\ env \in StartEnvs
  /\ files \in FileSubsets
  /\ options = <<>>
  /\ phase = "boot"
  /\ last = NoAccess

NextLoad ==
  \/ \E arg \in LoadArgs : ForRoot(arg)
  \/ Construct
  \/ \E prop \in LoadProps : Get(prop)
  \/ \E prop \in LoadProps : Has(prop)

SpecLoad == InitLoad /\ [][NextLoad]_vars

----------------------------------------------------------------------------
(* The policies side by side: the resolver is ready under each combination *)
(* of strict and coerce, process.env holds any of a few entries, among     *)
(* them ones under the keys of the special names, and the proxy is read    *)
(* under special names, under several spellings of one key and under a     *)
(* name whose key is never set.                                            *)

ToJsonKey == <<"T","O","_","J","S","O","N">>

\* what each key may hold: the empty string, a number, the word undefined
PolicyValues(k) ==
  IF k = ApiUrlKey THEN {<<>>, <<"3","0","0","0">>, UndefinedLiteral}
  ELSE {<<"x">>}

PolicyEnvs ==
  UNION { {e \in [S -> {<<>>, <<"3","0","0","0">>, UndefinedLiteral, <<"x">>}] :
             \A k \in S : e[k] \in PolicyValues(k)} :
          S \in SUBSET {ApiUrlKey, ThenKey, ToJsonKey} }

PolicyProps ==
  { StringProp(<<"a","p","i","U","r","l">>),
    StringProp(<<"a","p","i","U","R","L">>),
    StringProp(<<"a","p","i","_","u","r","l">>),
    StringProp(<<"p","o","r","t">>),
    StringProp(Then),
    StringProp(ThenKey),
    StringProp(ToJSON),
    StringProp(<<"t","o","_","j","s","o","n">>),
    SymbolProp(<<"i","t","e","r","a","t","o","r">>) }

InitPolicy ==
  /\ env \in PolicyEnvs
  /\ files = <<>>
  /\ \E strict \in BOOLEAN : \E coerce \in BOOLEAN :
       options = ForRootOptions([strict |-> strict, coerce |-> coerce])
  /\ phase = "ready"
  /\ last = NoAccess

NextPolicy ==
  \/ \E prop \in PolicyProps : Get(prop)
  \/ \E prop \in PolicyProps : Has(prop)

SpecPolicy == InitPolicy /\ [][NextPolicy]_vars

----------------------------------------------------------------------------
(* One process making module after module: between the calls of forRoot    *)
(* NODE_ENV is set to another name and the files of the working directory  *)
(* are replaced, also after a module was made and its service constructed. *)

Prod == <<"p","r","o","d">>

\* other files than the fixture's: another environment, other values
OtherFiles ==
  (DotEnv \o <<".">> \o Prod) :>
      << <<ApiUrlKey, Prod>>, <<PortKey, <<"7","0","7","0">>>> >>
  @@ DotEnv :>
      << <<AppNameKey, <<"o","t","h","e","r">>>> >>

ReloadFileSystems == {<<>>, FixtureFiles, OtherFiles}

ReloadArgs == {<<>>, [loadEnv |-> TRUE]}

\* the files of the working directory are replaced
ChangeFiles(fs) ==
  /\ files' = fs
  /\ files' # files
  /\ last' = NoAccess
  /\ UNCHANGED <<env, options, phase>>

\* the process goes on to make another module (the next test's beforeEach)
NewModule ==
  /\ phase # "boot"
  /\ phase' = "boot"
  /\ options' = <<>>
  /\ last' = NoAccess
  /\ UNCHANGED <<env, files>>

InitReload ==
  /\ env = <<>>
  /\ files \in ReloadFileSystems
  /\ options = <<>>
  /\ phase = "boot"
  /\ last = NoAccess

NextReload ==
  \/ \E v \in {Dev, Prod} : SetEnv(NodeEnv, v)
  \/ \E fs \in ReloadFileSystems : ChangeFiles(fs)
  \/ \E arg \in ReloadArgs : ForRoot(arg)
  \/ Construct
  \/ \E prop \in LoadProps : Get(prop)
  \/ \E prop \in LoadProps : Has(prop)
  \/ NewModule

SpecReload == InitReload /\ [][NextReload]_vars

----------------------------------------------------------------------------
(* Properties of the resolver, checked under Spec *)

\* the last call was config[prop] or (prop in config) with a string key that
\* is none of the special ones
AccessedPlain(op) ==
  last.op = op /\ last.prop.type = "string" /\ ~IsSpecial(last.prop)

\* the environment key of the last access is not set in process.env
LastKeyMissing == NameMapper(last.prop.name) \notin DOMAIN env

\* C1: with strict disabled (coerce enabled or not), reading a non-special
\* property whose environment key is undefined returns undefined without
\* throwing, and the existence check returns false.
C1_UndefinedIsSilent ==
  /\ (AccessedPlain("get") /\ LastKeyMissing /\ ~Flag(options, "strict"))
       => last.outcome = Return(Undefined)
  /\ (AccessedPlain("has") /\ LastKeyMissing /\ ~Flag(options, "strict"))
       => last.outcome = Return(Bool(FALSE))

C1_Witness ==
  /\ AccessedPlain("get") /\ LastKeyMissing
  /\ ~Flag(options, "strict") /\ Flag(options, "coerce")
  /\ last.outcome = Return(Undefined)

\* the message the strict mode error is documented to carry
ExpectedStrictMessage(name) ==
  <<"Strict mode error when accessing configuration property '">>
    \o name \o <<"'. ">> \o NameMapper(name)
    \o <<" is not defined on process.env">>

\* C2: with strict enabled, reading a non-special property whose environment
\* key is undefined throws an error whose message names the property as it
\* was written and the environment key derived from it.
C2_StrictErrorNamesBoth ==
  (AccessedPlain("get") /\ LastKeyMissing /\ Flag(options, "strict"))
    => /\ last.outcome = Throw(ExpectedStrictMessage(last.prop.name))
       /\ last.prop.name = <<"a","p","i","U","R","L">> =>
            last.outcome.message =
              <<"Strict mode error when accessing configuration property '",
                "a","p","i","U","R","L", "'. ", "A","P","I","_","U","R","L",
                " is not defined on process.env">>

C2_Witness ==
  /\ AccessedPlain("get") /\ LastKeyMissing /\ Flag(options, "strict")
  /\ last.prop.name = <<"a","p","i","U","R","L">>
  /\ last.outcome.kind = "throw"

\* C3 as stated: for every property name, the reserved ones included, the
\* existence check is true exactly when the environment key is defined.
C3_HasIffDefinedForEveryName ==
  (last.op = "has" /\ last.prop.type = "string")
    => last.outcome =
         Return(Bool(NameMapper(last.prop.name) \in DOMAIN env))

\* C3 amended: for every property name other than the reserved names then and
\* toJSON, under every policy, the existence check is true exactly when the
\* environment key is defined; for the reserved names it is false whatever
\* the environment holds.
C3_HasIffDefined ==
  /\ AccessedPlain("has")
       => last.outcome =
            Return(Bool(NameMapper(last.prop.name) \in DOMAIN env))
  /\ (last.op = "has" /\ last.prop.name \in {Then, ToJSON})
       => last.outcome = Return(Bool(FALSE))

C3_Witness ==
  /\ AccessedPlain("has")
  /\ NameMapper(last.prop.name) \in DOMAIN env
  /\ env[NameMapper(last.prop.name)] = <<>>
  /\ last.outcome = Return(Bool(TRUE))

\* C4: the only error is the strict mode error, thrown only by a read with
\* strict enabled of an undefined value: the existence check never throws
\* (it is false for an undefined key in strict mode too), and neither
\* forRoot, with or without file loading, nor the constructor throws.
C4_OnlyStrictGetThrows ==
  /\ (last.op # "none" /\ last.outcome.kind = "throw")
       => /\ AccessedPlain("get") /\ LastKeyMissing /\ Flag(options, "strict")
          /\ last.outcome.message = ExpectedStrictMessage(last.prop.name)
  /\ (AccessedPlain("has") /\ LastKeyMissing /\ Flag(options, "strict"))
       => last.outcome = Return(Bool(FALSE))
  /\ last.op \in {"forRoot", "construct"} => last.outcome.kind = "return"

C4_Witness ==
  /\ AccessedPlain("has") /\ LastKeyMissing /\ Flag(options, "strict")
  /\ Flag(options, "loadEnv")
  /\ last.outcome = Return(Bool(FALSE))

----------------------------------------------------------------------------
(* Properties of the coercion, checked under SpecCoerce *)

\* the last call read the variable that holds the raw value
GotRaw ==
  last.op = "get" /\ last.prop = EnvRaw /\ EnvRawKey \in DOMAIN env

RawValue == env[EnvRawKey]

\* C5: with coerce disabled, a defined value is returned as the same string,
\* whatever it holds (the literals, numbers, "NaN", "007", " 123 ", ""), so
\* the read gives a string.
C5_NoCoerceReturnsRaw ==
  (GotRaw /\ ~Flag(options, "coerce"))
    => /\ last.outcome = Return(Str(RawValue))
       /\ IsString(last.outcome.value)

C5_Witness ==
  /\ GotRaw /\ ~Flag(options, "coerce")
  /\ RawValue = <<" ","1","2","3"," ">>
  /\ last.outcome = Return(Str(<<" ","1","2","3"," ">>))

\* C6: with coerce enabled, "null" gives null, "undefined" gives undefined,
\* "true" gives true and "false" gives false, and only these exact strings
\* give those values.
C6_LiteralsAreExact ==
  (GotRaw /\ Flag(options, "coerce"))
    => /\ RawValue = NullLiteral <=> last.outcome = Return(Null)
       /\ RawValue = UndefinedLiteral <=> last.outcome = Return(Undefined)
       /\ RawValue = TrueLiteral <=> last.outcome = Return(Bool(TRUE))
       /\ RawValue = FalseLiteral <=> last.outcome = Return(Bool(FALSE))

C6_Witness ==
  /\ GotRaw /\ Flag(options, "coerce")
  /\ RawValue = FalseLiteral
  /\ last.outcome = Return(Bool(FALSE))

\* the literals C7 lists, without their surrounding whitespace
IsDecimalInteger(s) == IsDigits(s, 10)

IsDecimalFraction(s) ==
  \E i \in 2..(Len(s) - 1) :
    /\ s[i] = "."
    /\ IsDigits(SubSeq(s, 1, i - 1), 10)
    /\ IsDigits(From(s, i + 1), 10)

IsRadixLiteral(s) ==
  /\ Len(s) >= 3
  /\ s[1] = "0"
  /\ \/ s[2] = "x" /\ IsDigits(From(s, 3), 16)
     \/ s[2] = "o" /\ IsDigits(From(s, 3), 8)
     \/ s[2] = "b" /\ IsDigits(From(s, 3), 2)

IsScientific(s) ==
  \E i \in 2..(Len(s) - 1) :
    /\ s[i] \in {"e", "E"}
    /\ IsDecimalInteger(SubSeq(s, 1, i - 1))
         \/ IsDecimalFraction(SubSeq(s, 1, i - 1))
    /\ \/ IsDigits(From(s, i + 1), 10)
       \/ s[i + 1] \in {"+", "-"} /\ IsDigits(From(s, i + 2), 10)

IsListedLiteral(raw) ==
  LET s == Trim(raw)
  IN  \/ IsDecimalInteger(s)
      \/ IsDecimalFraction(s)
      \/ IsRadixLiteral(s)
      \/ IsScientific(s)

\* a 0 immediately followed by another digit
StartsWithZeroDigit(s) == Len(s) >= 2 /\ s[1] = "0" /\ IsDigit(s[2])

\* C7 as stated: with coerce enabled, every decimal integer, decimal
\* fraction, 0x, 0o, 0b or scientific literal, with or without surrounding
\* whitespace, is returned as the number Number() gives for it.
C7_EveryLiteralIsANumber ==
  (GotRaw /\ Flag(options, "coerce") /\ IsListedLiteral(RawValue))
    => last.outcome = Return(StringToNumber(RawValue))

\* C7 amended: the same, unless the value, once trimmed, starts with a 0
\* immediately followed by another digit. "0x1F" gives 31 and " 123 " 123.
C7_LiteralIsANumber ==
  (GotRaw /\ Flag(options, "coerce") /\ IsListedLiteral(RawValue)
     /\ ~StartsWithZeroDigit(Trim(RawValue)))
    => /\ last.outcome = Return(StringToNumber(RawValue))
       /\ IsNumber(last.outcome.value)
       /\ RawValue = <<"0","x","1","F">> =>
            last.outcome.value = Finite(FALSE, 31, 0)
       /\ RawValue = <<" ","1","2","3"," ">> =>
            last.outcome.value = Finite(FALSE, 123, 0)

C7_Witness ==
  /\ GotRaw /\ Flag(options, "coerce")
  /\ RawValue = <<"0","x","1","F">>
  /\ last.outcome = Return(Finite(FALSE, 31, 0))

\* C8: with coerce enabled, "NaN" is returned as the number NaN and
\* "Infinity" as the number Infinity, neither as a string.
C8_NaNAndInfinityAreNumbers ==
  (GotRaw /\ Flag(options, "coerce"))
    => /\ RawValue = <<"N","a","N">> => last.outcome = Return(NaN)
       /\ RawValue = InfinityLiteral => last.outcome = Return(Infinite(FALSE))

\* C9: with coerce enabled, a value that, once trimmed, starts with a 0
\* immediately followed by another digit is returned as the string it was,
\* and a number that starts with a 0 followed by something else, or is the
\* single 0, is returned as a number.
C9_LeadingZeroStaysString ==
  (GotRaw /\ Flag(options, "coerce"))
    => /\ StartsWithZeroDigit(Trim(RawValue))
            => last.outcome = Return(Str(RawValue))
       /\ ( /\ Trim(RawValue) # <<>>
            /\ Trim(RawValue)[1] = "0"
            /\ ~StartsWithZeroDigit(Trim(RawValue))
            /\ ~isNaN(StringToNumber(RawValue)) )
            => /\ IsNumber(last.outcome.value)
               /\ last.outcome = Return(StringToNumber(RawValue))
       /\ RawValue = <<"0",".","1","2","3">> =>
            last.outcome = Return(Finite(FALSE, 123, -3))
       /\ RawValue = <<"0","x","1","F">> =>
            last.outcome = Return(Finite(FALSE, 31, 0))
       /\ RawValue = <<"0">> => last.outcome = Return(Finite(FALSE, 0, 0))

C9_Witness ==
  /\ GotRaw /\ Flag(options, "coerce")
  /\ RawValue = <<" ","0","0","7"," ">>
  /\ last.outcome = Return(Str(<<" ","0","0","7"," ">>))

\* C10: with coerce enabled, a value that is none of the four literals and
\* that Number() cannot parse, the empty string and ordinary words included,
\* is returned as the string it was, and no value makes the read throw.
\* ("NaN", which C8 is about, is left to C8.)
C10_UnparseableStaysString ==
  (GotRaw /\ Flag(options, "coerce"))
    => /\ last.outcome.kind = "return"
       /\ ( /\ RawValue \notin
                 {NullLiteral, UndefinedLiteral, TrueLiteral, FalseLiteral}
            /\ RawValue # <<"N","a","N">>
            /\ RawValue = <<>> \/ isNaN(StringToNumber(RawValue)) )
            => last.outcome = Return(Str(RawValue))

C10_Witness ==
  /\ GotRaw /\ Flag(options, "coerce") /\ Flag(options, "strict")
  /\ RawValue = <<"h","e","l","l","o">>
  /\ last.outcome = Return(Str(<<"h","e","l","l","o">>))

\* C11: with strict and coerce both enabled, reading a variable whose value
\* is the string "undefined" returns undefined and does not throw: strict
\* mode looks at the raw value only, before any coercion.
C11_UndefinedLiteralIsNotMissing ==
  (GotRaw /\ Flag(options, "strict") /\ Flag(options, "coerce")
     /\ RawValue = UndefinedLiteral)
    => /\ last.outcome.kind = "return"
       /\ last.outcome = Return(Undefined)

C11_Witness ==
  /\ GotRaw /\ Flag(options, "strict") /\ Flag(options, "coerce")
  /\ RawValue = UndefinedLiteral
  /\ last.outcome = Return(Undefined)

----------------------------------------------------------------------------
(* Properties of the name transformation, checked under SpecMapper *)

\* the environment key a strict mode error names, after the property name
StrictKey(name, message) == SubSeq(message, Len(name) + 3, Len(message) - 1)

\* what the proxy shows when the name is resolved under the given key: the
\* value held under that key, or its absence, reported under that key
ResolvesTo(name, key) ==
  /\ (last.op = "get" /\ last.prop = StringProp(name))
       => IF key \in DOMAIN env THEN last.outcome = Return(Str(env[key]))
          ELSE IF Flag(options, "strict")
               THEN /\ last.outcome.kind = "throw"
                    /\ StrictKey(name, last.outcome.message) = key
          ELSE last.outcome = Return(Undefined)
  /\ (last.op = "has" /\ last.prop = StringProp(name))
       => last.outcome = Return(Bool(key \in DOMAIN env))

\* C12: the camelCase, trailing acronym, snake_case and leading acronym
\* spellings of the same words resolve under one key: databaseUrl,
\* databaseURL, database_url under DATABASE_URL; apiUrl, apiURL, api_url,
\* APIUrl under API_URL; screamingSnakeCase under SCREAMING_SNAKE_CASE.
C12_SpellingsCollapse ==
  /\ ResolvesTo(<<"d","a","t","a","b","a","s","e","U","r","l">>, DatabaseUrlKey)
  /\ ResolvesTo(<<"d","a","t","a","b","a","s","e","U","R","L">>, DatabaseUrlKey)
  /\ ResolvesTo(<<"d","a","t","a","b","a","s","e","_","u","r","l">>, DatabaseUrlKey)
  /\ ResolvesTo(<<"a","p","i","U","r","l">>, ApiUrlKey)
  /\ ResolvesTo(<<"a","p","i","U","R","L">>, ApiUrlKey)
  /\ ResolvesTo(<<"a","p","i","_","u","r","l">>, ApiUrlKey)
  /\ ResolvesTo(<<"A","P","I","U","r","l">>, ApiUrlKey)
  /\ ResolvesTo(<<"s","c","r","e","a","m","i","n","g","S","n","a","k","e","C","a","s","e">>, ScreamingKey)

C12_Witness ==
  /\ last.op = "get"
  /\ last.prop = StringProp(<<"A","P","I","U","r","l">>)
  /\ env = NamedEnv
  /\ last.outcome = Return(Str(<<"u">>))

\* C13: an uppercase letter followed by a digit is one word inside a
\* camelCase name: awsS3Bucket resolves under AWS_S3_BUCKET, awsS3BucketName
\* under AWS_S3_BUCKET_NAME, apiKey under API_KEY, AWSBucket under AWS_BUCKET.
C13_UpperDigitToken ==
  /\ ResolvesTo(<<"a","w","s","S","3","B","u","c","k","e","t">>, AwsS3BucketKey)
  /\ ResolvesTo(<<"a","w","s","S","3","B","u","c","k","e","t","N","a","m","e">>, AwsS3BucketNmKey)
  /\ ResolvesTo(<<"a","p","i","K","e","y">>, ApiKeyKey)
  /\ ResolvesTo(<<"A","W","S","B","u","c","k","e","t">>, AwsBucketKey)

C13_Witness ==
  /\ last.op = "get"
  /\ last.prop = StringProp(<<"a","w","s","S","3","B","u","c","k","e","t">>)
  /\ env = <<>> /\ Flag(options, "strict")
  /\ last.outcome.kind = "throw"
  /\ StrictKey(last.prop.name, last.outcome.message) = AwsS3BucketKey

\* C14: the name transformation gives a key for every identifier (the empty
\* one, all uppercase ones, ones with digits or underscores), and the key
\* holds no lowercase letter: every strict read of an empty environment ends
\* in the strict mode error, which names such a key.
C14_KeyIsUpperCase ==
  (last.op = "get" /\ ~IsSpecial(last.prop) /\ env = <<>>
     /\ Flag(options, "strict"))
    => /\ last.outcome.kind = "throw"
       /\ LET key == StrictKey(last.prop.name, last.outcome.message)
          IN  /\ \A i \in 1..Len(key) : ~IsLower(key[i])
              /\ Len(key) >= Len(last.prop.name)

C14_Witness ==
  /\ last.op = "get" /\ env = <<>> /\ Flag(options, "strict")
  /\ last.prop.name = <<"a", "B", "_">>
  /\ last.outcome.kind = "throw"
  /\ StrictKey(last.prop.name, last.outcome.message) = <<"A", "_", "B", "_">>

----------------------------------------------------------------------------
(* Properties of file loading, checked under SpecLoad *)

\* the step in which forRoot is called with loadEnv enabled
LoadStep ==
  /\ phase = "boot" /\ phase' = "module"
  /\ last'.op = "forRoot"
  /\ Flag(options', "loadEnv")

\* the state a loading forRoot leaves
Loaded ==
  /\ phase = "module" /\ last.op = "forRoot" /\ Flag(options, "loadEnv")

\* the four file names from the highest rank to the lowest, for the
\* environment name the process had when loading began
Ranked(environment) ==
  << <<".","e","n","v",".">> \o environment \o <<".","l","o","c","a","l">>,
     <<".","e","n","v",".","l","o","c","a","l">>,
     <<".","e","n","v",".">> \o environment,
     <<".","e","n","v">> >>

EnvironmentOf(e) ==
  IF NodeEnv \in DOMAIN e THEN e[NodeEnv]
  ELSE <<"u","n","d","e","f","i","n","e","d">>

\* the file can be read and has a line for the key
DefinedIn(path, k) ==
  /\ path \in DOMAIN files
  /\ \E i \in 1..Len(files[path]) : files[path][i][1] = k

\* the value of the file's last line for the key
ValueIn(path, k) ==
  LET i == CHOOSE i \in 1..Len(files[path]) :
             /\ files[path][i][1] = k
             /\ \A j \in (i + 1)..Len(files[path]) : files[path][j][1] # k
  IN  files[path][i][2]

FileKeys == {ApiUrlKey, PortKey, AppNameKey}

\* C15: after loading, a key that was absent from process.env and is defined
\* in one or more of the four files holds the value of the highest ranked
\* file that defines it.
C15_HighestRankWins ==
  [][LoadStep =>
       LET ranked == Ranked(EnvironmentOf(env))
       IN  \A k \in FileKeys \ DOMAIN env : \A r \in 1..4 :
             (DefinedIn(ranked[r], k)
                /\ \A q \in 1..(r - 1) : ~DefinedIn(ranked[q], k))
               => (k \in DOMAIN env' /\ env'[k] = ValueIn(ranked[r], k))]_vars

C15_Witness ==
  /\ Loaded
  /\ files = FixtureFiles
  /\ ApiUrlKey \in DOMAIN env /\ env[ApiUrlKey] = <<"d","e","v","-","l","o","c","a","l">>
  /\ PortKey \in DOMAIN env /\ env[PortKey] = <<"8","0","8","0">>
  /\ AppNameKey \in DOMAIN env

\* C16: loading leaves every key that process.env already had with the value
\* it had, whichever files define it, and only adds keys that were absent.
C16_PresetKeysKept ==
  [][LoadStep =>
       \A k \in DOMAIN env : k \in DOMAIN env' /\ env'[k] = env[k]]_vars

C16_Witness ==
  /\ Loaded
  /\ files = FixtureFiles
  /\ NodeEnv \in DOMAIN env
  /\ PortKey \in DOMAIN env /\ env[PortKey] = <<"3","0","0","0">>
  /\ ApiUrlKey \in DOMAIN env /\ env[ApiUrlKey] = Preset
  /\ AppNameKey \in DOMAIN env

\* C17: whichever of the four files can be read, forRoot with loadEnv returns
\* normally and process.env gains exactly the keys of the files that can be
\* read, a missing file in between stopping nothing.
C17_MissingFilesSkipped ==
  [][LoadStep =>
       /\ last'.outcome.kind = "return"
       /\ LET ranked == Ranked(EnvironmentOf(env))
          IN  DOMAIN env' =
                DOMAIN env \cup
                  {k \in FileKeys : \E r \in 1..4 : DefinedIn(ranked[r], k)}]_vars

C17_Witness ==
  /\ Loaded
  /\ last.outcome.kind = "return"
  /\ DOMAIN files = {DotEnv \o <<".">> \o Dev, DotEnv}
  /\ PortKey \in DOMAIN env /\ env[PortKey] = <<"9","0","9","0">>
  /\ AppNameKey \in DOMAIN env
  /\ ApiUrlKey \notin DOMAIN env

----------------------------------------------------------------------------
(* Properties of the module's options and of the environment, checked *)
(* under Spec                                                          *)

\* forRoot arguments that enable nothing: no argument, or flags all false
DisabledArgs == {arg \in PartialOptions : \A n \in DOMAIN arg : ~arg[n]}

AllDisabled(opts) == \A n \in OptionNames : ~Flag(opts, n)

\* the outcome of a call that neither throws nor coerces: the raw entry
PlainOutcome(e, op, prop) ==
  LET key == NameMapper(prop.name)
  IN  IF op = "get"
      THEN IF IsSpecial(prop) \/ key \notin DOMAIN e THEN Return(Undefined)
           ELSE Return(Str(e[key]))
      ELSE Return(Bool(~IsSpecial(prop) /\ key \in DOMAIN e))

\* C18: the plain ConfigModule, forRoot() and forRoot with every flag false
\* all give a resolver with nothing enabled and load no file; with nothing
\* enabled every get returns the raw entry or undefined, without throwing or
\* coercing, and every has tells whether the entry is defined.
C18_DefaultsAreDisabled ==
  [][/\ (ImportModule \/ \E arg \in DisabledArgs : ForRoot(arg))
          => (AllDisabled(options') /\ env' = env)
     /\ (AllDisabled(options') /\ last'.op \in {"get", "has"})
          => last'.outcome = PlainOutcome(env', last'.op, last'.prop)]_vars

C18_Witness ==
  /\ options = ForRootOptions(<<>>)
  /\ files = FixtureFiles
  /\ DOMAIN env = {ApiUrlKey} /\ env[ApiUrlKey] = <<"3","0","0","0">>
  /\ last.op = "get"
  /\ last.prop = StringProp(<<"a","p","i","U","r","l">>)
  /\ last.outcome = Return(Str(<<"3","0","0","0">>))

\* what a call made now gives: the entry process.env holds at this moment,
\* put through the strict test and the coercion the options ask for
CurrentOutcome(op, prop) ==
  LET key   == NameMapper(prop.name)
      entry == IF key \in DOMAIN env THEN Str(env[key]) ELSE Undefined
  IN  IF op = "has" THEN Return(Bool(~IsSpecial(prop) /\ entry # Undefined))
      ELSE IF IsSpecial(prop) THEN Return(Undefined)
      ELSE IF entry = Undefined /\ Flag(options, "strict")
           THEN Throw(ExpectedStrictMessage(prop.name))
      ELSE IF Flag(options, "coerce") THEN Return(Coerce(entry))
      ELSE Return(entry)

\* C19: nothing is cached: whatever sets and deletes of process.env entries
\* came before, the outcome of the latest get or has is the one the entries
\* held at the moment of the call give.
C19_ReadsCurrentEnv ==
  last.op \in {"get", "has"} => last.outcome = CurrentOutcome(last.op, last.prop)

C19_Witness ==
  /\ last.op = "get"
  /\ last.prop = StringProp(<<"a","p","i","U","r","l">>)
  /\ ApiUrlKey \in DOMAIN env /\ env[ApiUrlKey] = <<"3","0","0","0">>
  /\ ~Flag(options, "coerce")
  /\ last.outcome = Return(Str(<<"3","0","0","0">>))

\* C20: a get or a has, whether it returns a value, returns undefined or
\* throws the strict mode error, leaves process.env as it was: no entry is
\* added, changed or deleted.
C20_ReadsLeaveEnvAlone ==
  [][last'.op \in {"get", "has"} => env' = env]_vars

C20_Witness ==
  /\ last.op = "get"
  /\ last.outcome.kind = "throw"
  /\ last.prop = StringProp(<<"a","p","i","U","r","l">>)
  /\ DOMAIN env = {ThenKey, NodeEnv}

----------------------------------------------------------------------------
(* Properties that compare policies and names, checked under SpecPolicy *)

\* the key is written then or toJSON, or is a symbol
ReservedKey(prop) ==
  \/ prop.type = "symbol"
  \/ prop.type = "string" /\ prop.name \in {<<"t","h","e","n">>, <<"t","o","J","S","O","N">>}

\* C21: under every policy, strict included, and whether or not THEN or
\* TO_JSON is set in process.env, reading then, toJSON or a symbol gives
\* undefined and never the strict mode error, and testing them with in
\* gives false: process.env plays no part in the outcome.
C21_ReservedKeysAreUndefined ==
  /\ (last.op = "get" /\ ReservedKey(last.prop)) => last.outcome = Return(Undefined)
  /\ (last.op = "has" /\ ReservedKey(last.prop)) => last.outcome = Return(Bool(FALSE))

C21_Witness ==
  /\ last.op = "get"
  /\ last.prop = StringProp(<<"t","o","J","S","O","N">>)
  /\ Flag(options, "strict")
  /\ ThenKey \in DOMAIN env /\ ToJsonKey \notin DOMAIN env
  /\ last.outcome = Return(Undefined)

----------------------------------------------------------------------------
(* Properties of loading over the life of the process, checked under *)
(* SpecReload                                                         *)

\* process.env holds every key the files that can be read now define
HoldsEveryFileKey(e) ==
  LET ranked == Ranked(EnvironmentOf(e))
  IN  \A k \in FileKeys :
        (\E r \in 1..4 : DefinedIn(ranked[r], k)) => k \in DOMAIN e

\* C22: loading is over when forRoot returns, before the service exists and
\* any get or has can run, and it happens in forRoot alone: constructing
\* the service and calling get or has leave process.env as it is, also when
\* the files have changed since.
C22_LoadOnceInForRoot ==
  [][/\ LoadStep => HoldsEveryFileKey(env')
     /\ last'.op \in {"construct", "get", "has"} => env' = env]_vars

C22_Witness ==
  /\ phase = "ready" /\ Flag(options, "loadEnv")
  /\ last.op = "get"
  /\ last.prop = StringProp(<<"a","p","i","U","r","l">>)
  /\ files = FixtureFiles
  /\ DOMAIN env = {NodeEnv} /\ env[NodeEnv] = Dev
  /\ last.outcome = Return(Undefined)

\* C30: however many times forRoot loads in one process, under whatever
\* NODE_ENV and files, a load leaves every key process.env already has with
\* its value, and a load that finds every key of the files already present
\* changes nothing.
C30_LoadsNeverOverwrite ==
  [][LoadStep =>
       /\ \A k \in DOMAIN env : k \in DOMAIN env' /\ env'[k] = env[k]
       /\ HoldsEveryFileKey(env) => env' = env]_vars

C30_Witness ==
  /\ Loaded
  /\ files = FixtureFiles
  /\ NodeEnv \in DOMAIN env /\ env[NodeEnv] = Dev
  /\ AppNameKey \in DOMAIN env /\ env[AppNameKey] = <<"o","t","h","e","r">>
  /\ ApiUrlKey \in DOMAIN env /\ env[ApiUrlKey] = <<"d","e","v","-","l","o","c","a","l">>

----------------------------------------------------------------------------
(* Properties of the two replaces, checked under SpecMapper on the names *)
(* the proxy is read under                                                *)

\* the string with an underscore put after each of the given positions
InsertUnderscores(s, after) ==
  LET shift(i) == Cardinality({b \in after : b < i})
  IN  [j \in 1..(Len(s) + Cardinality(after)) |->
         IF \E b \in after : j = b + shift(b) + 1 THEN "_"
         ELSE s[CHOOSE i \in 1..Len(s) : i + shift(i) = j]]

\* the positions of a lowercase letter or digit that an uppercase letter follows
LowerUpperBoundaries(s) ==
  {i \in 1..(Len(s) - 1) : (IsLower(s[i]) \/ IsDigit(s[i])) /\ IsUpper(s[i + 1])}

\* the name the latest get was made under
ReadName == last.prop.name

\* C23: the first replace puts one underscore after every lowercase letter
\* or digit that an uppercase letter follows, at each such place of the
\* name (aBcD, a1B) and nowhere else.
C23_Step1AtEveryBoundary ==
  last.op = "get"
    => ReplaceLowerUpper(ReadName)
         = InsertUnderscores(ReadName, LowerUpperBoundaries(ReadName))

C23_Witness ==
  /\ last.op = "get"
  /\ ReadName = <<"a","B","c","D">>
  /\ ReplaceLowerUpper(ReadName) = <<"a","_","B","c","_","D">>
  /\ env = <<>> /\ Flag(options, "strict")
  /\ StrictKey(ReadName, last.outcome.message) = <<"A","_","B","C","_","D">>

\* the positions that end a run of two or more uppercase letters and are
\* followed by an uppercase letter and then a lowercase letter or digit
TwoUpperBoundaries(s) ==
  {i \in 2..(Len(s) - 2) :
     /\ IsUpper(s[i - 1]) /\ IsUpper(s[i]) /\ IsUpper(s[i + 1])
     /\ (IsLower(s[i + 2]) \/ IsDigit(s[i + 2]))}

\* C24: the second replace puts underscores only after a run of two or more
\* uppercase letters that an uppercase letter starting a lowercase or digit
\* word follows; ABucket, HTTP2 and OAUTH2 get no underscore from it.
C24_Step2NeedsTwoUppercase ==
  last.op = "get"
    => LET afterStep1 == ReplaceLowerUpper(ReadName)
       IN  /\ \E after \in SUBSET TwoUpperBoundaries(afterStep1) :
                ReplaceAcronym(afterStep1) = InsertUnderscores(afterStep1, after)
           /\ ReadName \in {<<"A","B","u","c","k","e","t">>, <<"H","T","T","P","2">>,
                            <<"O","A","U","T","H","2">>}
                => ReplaceAcronym(afterStep1) = afterStep1

\* C26: the name transformation is idempotent, so an environment key used as
\* the property name (OAUTH2_CLIENT, HTTP2) resolves under itself.
C26_NameMapperIdempotent ==
  last.op = "get"
    => /\ NameMapper(NameMapper(ReadName)) = NameMapper(ReadName)
       /\ ReadName \in {<<"O","A","U","T","H","2","_","C","L","I","E","N","T">>, <<"H","T","T","P","2">>}
            => ResolvesTo(ReadName, ReadName)

\* the string with its underscores deleted
WithoutUnderscores(s) ==
  LET Kept(c) == c # "_"
  IN  SelectSeq(s, Kept)

\* C27: the name transformation only inserts underscores and changes the
\* case of letters: the key with its underscores deleted is the uppercase
\* of the name with its underscores deleted.
C27_OnlyUnderscoresAndCase ==
  last.op = "get"
    => WithoutUnderscores(NameMapper(ReadName))
         = ToUpperCase(WithoutUnderscores(ReadName))

C27_Witness ==
  /\ last.op = "get"
  /\ ReadName = <<"a","w","s","S","3","B","u","c","k","e","t","N","a","m","e">>
  /\ env = NamedEnv
  /\ last.outcome = Return(Str(<<"n">>))
  /\ WithoutUnderscores(NameMapper(ReadName)) = <<"A","W","S","S","3","B","U","C","K","E","T","N","A","M","E">>

\* the options with strict turned off
StrictOff(opts) == [n \in OptionNames |-> n # "strict" /\ Flag(opts, n)]

\* C25: strict changes the outcome for undefined values only: when the
\* environment value of the key is defined, the empty string included, get
\* under strict does not throw and returns what it returns with strict off
\* and the same coerce setting.
C25_StrictOnlyForUndefined ==
  (last.op = "get" /\ last.prop.type = "string"
     /\ NameMapper(last.prop.name) \in DOMAIN env /\ Flag(options, "strict"))
    => /\ last.outcome.kind = "return"
       /\ last.outcome = GetTrap(env, StrictOff(options), last.prop)

C25_Witness ==
  /\ last.op = "get"
  /\ last.prop = StringProp(<<"a","p","i","U","r","l">>)
  /\ Flag(options, "strict") /\ ~Flag(options, "coerce")
  /\ ApiUrlKey \in DOMAIN env /\ env[ApiUrlKey] = <<>>
  /\ last.outcome = Return(Str(<<>>))

\* the outcome of the same call made under another property key
Trap(op, prop) ==
  IF op = "get" THEN GetTrap(env, options, prop) ELSE HasTrap(env, options, prop)

\* both throw, or both return the same value
Agree(a, b) == a.kind = b.kind /\ (a.kind = "return" => a = b)

\* the property keys written as strings whose environment key is the one of
\* the latest call
SameKeyProps ==
  {p \in PolicyProps :
     p.type = "string" /\ NameMapper(p.name) = NameMapper(last.prop.name)}

\* C28 as stated: two names with the same environment key give the same has
\* result and the same get outcome, whatever the names are.
C28_SameKeySameOutcome ==
  (last.op \in {"get", "has"} /\ last.prop.type = "string")
    => \A p \in SameKeyProps : Agree(last.outcome, Trap(last.op, p))

\* C28: two names other than then and toJSON with the same environment key
\* give, in the same environment and under the same policy, the same has
\* result and the same get outcome.
C28_SameKeySameOutcomeUnlessReserved ==
  (last.op \in {"get", "has"} /\ last.prop.type = "string"
     /\ ~ReservedKey(last.prop))
    => \A p \in SameKeyProps :
         ~ReservedKey(p) => Agree(last.outcome, Trap(last.op, p))

C28_Witness ==
  /\ last.op = "get"
  /\ last.prop = StringProp(<<"a","p","i","U","R","L">>)
  /\ ~Flag(options, "coerce")
  /\ ApiUrlKey \in DOMAIN env /\ env[ApiUrlKey] = <<"3","0","0","0">>
  /\ last.outcome = Return(Str(<<"3","0","0","0">>))
  /\ Trap("get", StringProp(<<"a","p","i","_","u","r","l">>)) = last.outcome

\* has said true, or false
SaidTrue == last.outcome = Return(Bool(TRUE))

\* the raw value of the key of the latest call is the word undefined
RawIsUndefinedWord ==
  /\ NameMapper(last.prop.name) \in DOMAIN env
  /\ env[NameMapper(last.prop.name)] = UndefinedLiteral

\* C29 as stated: under every policy, when has says true get does not throw
\* and returns something other than undefined; when has says false get
\* returns undefined or, under strict, throws.
C29_HasAndGetAgree ==
  last.op = "has"
    => LET got == GetTrap(env, options, last.prop)
       IN  IF SaidTrue
           THEN got.kind = "return" /\ got.value # Undefined
           ELSE \/ got = Return(Undefined)
                \/ Flag(options, "strict") /\ got.kind = "throw"

\* C29: as above, except that with coerce enabled a key whose raw value is
\* the word undefined is there for has while get returns undefined.
C29_HasAndGetAgreeUnlessCoercedAway ==
  last.op = "has"
    => LET got == GetTrap(env, options, last.prop)
       IN  IF SaidTrue
           THEN /\ got.kind = "return"
                /\ IF Flag(options, "coerce") /\ RawIsUndefinedWord
                   THEN got.value = Undefined
                   ELSE got.value # Undefined
           ELSE \/ got = Return(Undefined)
                \/ Flag(options, "strict") /\ got.kind = "throw"

C29_Witness ==
  /\ last.op = "has"
  /\ last.prop = StringProp(<<"a","p","i","U","r","l">>)
  /\ Flag(options, "coerce") /\ Flag(options, "strict")
  /\ RawIsUndefinedWord
  /\ SaidTrue
  /\ GetTrap(env, options, last.prop) = Return(Undefined)

====
